---- MODULE Spec2Model ----
(***************************************************************************)
(* Model of the Oozie example runner                                       *)
(* (scripts/oozie_testing/inside_container/example_runner.py, report.py).  *)
(*                                                                         *)
(* Spec     : run_examples over an iterable of examples, every external    *)
(*            command and request being one step whose outcome the         *)
(*            environment chooses.                                         *)
(* WaitSpec : wait_for_job_to_finish alone, entered with arbitrary         *)
(*            poll_time / timeout and a wall clock that may advance        *)
(*            between any two steps.                                       *)
(*                                                                         *)
(* PropsSpec, NameSpec, YarnSpec, LogsSpec, ReportSpec : one function each *)
(*            called on its own (create_job_properties, the id             *)
(*            normalization, get_yarn_applications_of_job, and             *)
(*            printable_logs_for_oozie_job / generate_report of            *)
(*            scripts/output.py), its arguments drawn from small sets.     *)
(*                                                                         *)
(* Python strings that the code only compares or concatenates are TLA+     *)
(* strings; strings the code slices or tests for a prefix (application     *)
(* ids, directory names) are tuples of one-character strings.              *)
(***************************************************************************)
EXTENDS Integers, Sequences, FiniteSets, TLC

\* ------------------------------------------------------------------ bounds
\* at most this many examples are pulled from the `examples` iterable
MaxExamples == 2
\* timeouts tried by Spec: 0..MaxRunTimeout
MaxRunTimeout == 1
\* timeouts tried by WaitSpec: 0..MaxTimeout
MaxTimeout == 5
\* poll times tried by WaitSpec: 0..MaxPollTime
MaxPollTime == 2
\* number of status queries after which the model stops following one job
MaxQueries == 8
\* the wall clock of WaitSpec stops drifting at this elapsed time
MaxClock == 7
\* option lists handed to create_job_properties have at most this many entries
MaxOptions == 3
\* a function called on its own is called at most this many times
MaxCalls == 2
\* external ids tried besides the named ones have at most this many characters
MaxIdLen == 4
\* metadata documents have at most this many actions
MaxActions == 3
\* a record handed to printable_logs_for_oozie_job lists at most this many applications
MaxApps == 2
\* generate_report is handed at most this many records
MaxRecords == 2
\* generated class names of fluent examples have at most this many characters
MaxNameLen == 2
\* the fluentjob source directory holds at most this many java files
MaxFiles == 2

\* --------------------------------------------------------- program values
\* main() passes the literal 1 as poll_time
MainPollTime == 1

None == "None"

\* report.Result
ResultNames == {"SUCCEEDED", "SKIPPED", "TIMED_OUT", "KILLED", "FAILED", "ERROR"}

\* what the regex of query_job can capture from the engine's output: any
\* string; the model tries the running value, the engine's terminal values,
\* two further engine states, and the names of the locally produced Results
RawStatuses ==
    {"RUNNING", "SUCCEEDED", "FAILED", "KILLED", "PREP", "SUSPENDED",
     "SKIPPED", "TIMED_OUT", "ERROR"}

\* query_job's return value when the query command exits non-zero
QueryFailed == "OozieSubprocessResult"

\* names of the examples, by position in the iterable (unique within a run)
ExampleNames == <<"hive2", "Fluent_Spark", "map-reduce", "Fluent_Shell">>

\* job ids the submission command prints, by position of the example
JobIds == <<"job-1-W", "job-2-W", "job-3-W", "job-4-W">>

ExampleKinds == {"NormalExample", "FluentExample", "FluentExampleValidateOnly"}

\* names the whitelist and the blacklist are drawn from
FilterNames == {ExampleNames[1], ExampleNames[2]}

\* cli_options dictionaries tried: with and without the key 'all'
CliOptionChoices ==
    { ("all" :> <<"nameNode=hdfs">>) @@ ("hive2" :> <<"jdbcURL=jdbc">>)
                                     @@ ("Fluent_Spark" :> <<"master=local">>),
      ("hive2" :> <<"jdbcURL=jdbc">>) }

\* ---------------------------------------------------------------- strings
APPLICATION == <<"a", "p", "p", "l", "i", "c", "a", "t", "i", "o", "n">>

\* str.startswith
StartsWith(s, p) ==
    /\ Len(s) >= Len(p)
    /\ SubSeq(s, 1, Len(p)) = p

\* str.find for a one-character needle: 0-based index, -1 when absent
Find(s, c) ==
    IF \E i \in 1..Len(s) : s[i] = c
    THEN (CHOOSE i \in 1..Len(s) : s[i] = c /\ \A j \in 1..(i-1) : s[j] # c) - 1
    ELSE -1

\* s[index:] with Python's meaning of a negative index
SliceFrom(s, index) ==
    LET start == IF index >= 0 THEN index
                 ELSE IF Len(s) + index >= 0 THEN Len(s) + index ELSE 0
    IN  IF start >= Len(s) THEN <<>> ELSE SubSeq(s, start + 1, Len(s))

\* the normalization with the prefix cut short
get_application_name_short_prefix(external_id) ==
    IF StartsWith(external_id, APPLICATION)
    THEN external_id
    ELSE LET index == Find(external_id, "_")
         IN  <<"a", "p", "p">> \o SliceFrom(external_id, index)

get_application_name_from_external_id(external_id) ==
    IF StartsWith(external_id, APPLICATION)
    THEN external_id
    ELSE LET index == Find(external_id, "_")
         IN  APPLICATION \o SliceFrom(external_id, index)

\* --------------------------------------------------- job metadata document
\* an action of the document: externalId is a string ("str"), null or absent
Action(kind, ext) == [kind |-> kind, externalId |-> ext]

ExtJob == <<"j", "o", "b", "_", "1">>
ExtApp == APPLICATION \o <<"_", "2">>
ExtDash == <<"-">>

\* the documents the metadata endpoint answers with
Documents ==
    { [hasActions |-> FALSE, actions |-> <<>>],
      [hasActions |-> TRUE,  actions |-> <<Action("str", ExtDash)>>],
      [hasActions |-> TRUE,  actions |-> <<Action("str", ExtJob), Action("null", <<>>),
                                           Action("str", ExtApp)>>],
      [hasActions |-> TRUE,  actions |-> <<Action("str", ExtJob), Action("absent", <<>>)>>] }

\* action["externalId"] raises KeyError for some action the filter visits
ExternalIdMissing(doc) ==
    /\ doc.hasActions
    /\ \E i \in 1..Len(doc.actions) : doc.actions[i].kind = "absent"

IsYarnAction(action) ==
    /\ action.kind # "null"
    /\ action.externalId # ExtDash

RECURSIVE YarnApplications(_)
YarnApplications(actions) ==
    IF actions = <<>> THEN <<>>
    ELSE LET rest == YarnApplications(Tail(actions))
         IN  IF IsYarnAction(Head(actions))
             THEN <<get_application_name_from_external_id(Head(actions).externalId)>> \o rest
             ELSE rest

\* get_yarn_applications_of_job on a document all of whose actions carry
\* the key externalId
get_yarn_applications_of_job(doc) ==
    YarnApplications(IF doc.hasActions THEN doc.actions ELSE <<>>)

\* ----------------------------------------------------------------- report
ReportRecord(name, result, oozie_job_id, applications, stdout, stderr) ==
    [name |-> name, result |-> result, oozie_job_id |-> oozie_job_id,
     applications |-> applications, stdout |-> stdout, stderr |-> stderr]

\* report.Result[status]: the member of that name, "KeyError" when there is none
KeyError == "KeyError"

\* the lookup with two members exchanged
ResultLookup_exchanged(status) ==
    IF status \notin ResultNames THEN KeyError
    ELSE IF status = "KILLED" THEN "FAILED"
    ELSE IF status = "FAILED" THEN "KILLED"
    ELSE status

ResultLookup(status) ==
    IF status \in ResultNames THEN status ELSE KeyError

\* number of occurrences of x in the sequence s
Count(s, x) == Cardinality({i \in 1..Len(s) : s[i] = x})

\* ------------------------------------------------------------------ state
VARIABLES
    whitelist,      \* run_examples argument: [given, names]; given = FALSE is None
    blacklist,      \* run_examples argument
    cli_options,    \* run_examples argument: dictionary name -> list of options
    poll_time,      \* seconds slept between two status queries
    timeout,        \* seconds after which a running job is killed
    examples,       \* the examples pulled from the iterable so far
    pc,             \* position of the runner
    records,        \* the ReportRecords produced so far, in order
    options,        \* the list handed to example.launch
    tmp_exists,     \* the TemporaryDirectory of the running launch exists
    job_properties, \* content of the generated job.properties file
    job_id,         \* launch_result of the current example
    status,         \* local `status` of wait_for_job_to_finish
    elapsed,        \* time.time() - start_time
    final_status,   \* value returned by wait_for_job_to_finish
    applications,   \* value returned by get_yarn_applications_of_job
    kill_rc,        \* exit code of the kill command, NoExit before it ran
    submit_rc,      \* exit code of the submission command, NoExit before it ran
    launched,       \* example.launch was invoked for the current example
    calls,          \* commands, requests and sleeps issued for the current example
    replies,        \* values query_job returned for the current job
    exc,            \* exception raised while launching the current example
    jar_path,       \* value build_example returned to the current launch
    return_code,    \* exit code of the validation command, NoExit before it ran
    argument,       \* arguments of a function that is called on its own
    returned        \* outcomes of the calls of that function, in order

inputVars == <<whitelist, blacklist, poll_time, timeout>>
runVars == <<examples, records>>
buildVars == <<jar_path, return_code>>
launchVars == <<buildVars, options, tmp_exists, job_properties, job_id, submit_rc, launched>>
waitVars == <<status, elapsed, final_status, kill_rc, replies>>
vars == <<whitelist, blacklist, cli_options, poll_time, timeout, examples, pc,
          records, options, tmp_exists, job_properties, job_id, status, elapsed,
          final_status, applications, kill_rc, submit_rc, launched, calls, replies,
          exc, jar_path, return_code, argument, returned>>
unitVars == <<argument, returned>>

NoExit == 0 - 1

NoWhitelist == [given |-> FALSE, names |-> {}]
Whitelists == {NoWhitelist} \cup {[given |-> TRUE, names |-> s] : s \in SUBSET FilterNames}

\* no function is being called on its own
NotCalled ==
    /\ argument = None
    /\ returned = <<>>

\* the locals of one _get_example_result call before anything was done
FreshExample ==
    /\ options = <<>>
    /\ tmp_exists = FALSE
    /\ job_properties = ""
    /\ job_id = None
    /\ status = None
    /\ elapsed = 0
    /\ final_status = None
    /\ applications = <<>>
    /\ kill_rc = NoExit
    /\ submit_rc = NoExit
    /\ launched = FALSE
    /\ calls = <<>>
    /\ replies = <<>>
    /\ exc = None
    /\ jar_path = None
    /\ return_code = NoExit

FreshExample_next ==
    /\ tmp_exists' = FALSE
    /\ job_properties' = ""
    /\ job_id' = None
    /\ status' = None
    /\ elapsed' = 0
    /\ final_status' = None
    /\ applications' = <<>>
    /\ kill_rc' = NoExit
    /\ submit_rc' = NoExit
    /\ launched' = FALSE
    /\ calls' = <<>>
    /\ replies' = <<>>
    /\ exc' = None
    /\ jar_path' = None
    /\ return_code' = NoExit

Init ==
    /\ whitelist \in Whitelists
    /\ blacklist \in SUBSET FilterNames
    /\ cli_options \in CliOptionChoices
    /\ poll_time = MainPollTime
    /\ timeout \in 0..MaxRunTimeout
    /\ examples = <<>>
    /\ pc = "next"
    /\ records = <<>>
    /\ FreshExample
    /\ NotCalled

\* the example being processed
example == examples[Len(examples)]

\* -------------------------------------------------------- leaving a launch
\* the return leaving the directory of the launch behind
ReturnRecord_keeps_directory(record) ==
    /\ records' = Append(records, record)
    /\ UNCHANGED tmp_exists
    /\ pc' = "next"

\* `return record` out of launch and _get_example_result: the with block of a
\* fluent launch removes its directory, map appends the record
ReturnRecord(record) ==
    /\ records' = Append(records, record)
    /\ tmp_exists' = FALSE
    /\ pc' = "next"

\* the exceptions of the model
NoJobId == "ValueError: The job id could not be determined"
NoStatus == "ValueError: The status could not be determined"
NoSuchResult == "KeyError: Result"
NoExternalId == "KeyError: externalId"

\* an exception leaves launch: the with block removes the directory on the way
Raise(e) ==
    /\ exc' = e
    /\ tmp_exists' = FALSE
    /\ pc' = "raised"

\* ---------------------------------------------------- _get_example_result
\* the blacklist test giving way to the whitelist
Blacklisted_unless_whitelisted(name) ==
    name \in blacklist /\ ~(whitelist.given /\ name \in whitelist.names)

Blacklisted(name) == name \in blacklist

\* the whitelist tested by its truth value: an empty list counts as none
NotWhitelisted_empty_as_none(name) ==
    whitelist.given /\ whitelist.names # {} /\ name \notin whitelist.names

\* whitelist is not None and example.name() not in whitelist
NotWhitelisted(name) == whitelist.given /\ name \notin whitelist.names

\* cli_options.get(key, [])
DictGet(dict, key) == IF key \in DOMAIN dict THEN dict[key] ELSE <<>>

NextExample(kind) ==
    [name |-> ExampleNames[Len(examples) + 1], kind |-> kind]

SkipBlacklisted ==
    /\ pc = "next"
    /\ Len(examples) < MaxExamples
    /\ \E kind \in ExampleKinds :
        LET ex == NextExample(kind) IN
        /\ Blacklisted(ex.name)
        /\ examples' = Append(examples, ex)
        /\ FreshExample_next
        /\ options' = <<>>
        /\ records' = Append(records,
                ReportRecord(ex.name, "SKIPPED", None, <<>>, None, None))
    /\ UNCHANGED <<unitVars, inputVars, cli_options, pc>>

SkipNotWhitelisted ==
    /\ pc = "next"
    /\ Len(examples) < MaxExamples
    /\ \E kind \in ExampleKinds :
        LET ex == NextExample(kind) IN
        /\ ~Blacklisted(ex.name)
        /\ NotWhitelisted(ex.name)
        /\ examples' = Append(examples, ex)
        /\ FreshExample_next
        /\ options' = <<>>
        /\ records' = Append(records,
                ReportRecord(ex.name, "SKIPPED", None, <<>>, None, None))
    /\ UNCHANGED <<unitVars, inputVars, cli_options, pc>>

\* options = cli_options.get("all", []); options.extend(cli_options.get(name, []))
\* extend works on the list object stored under 'all' when there is one
\* the next example started while the logs of the current one are still to
\* be fetched
RunExample_before_record ==
    /\ pc \in {"next", "logs"}
    /\ Len(examples) < MaxExamples
    /\ \E kind \in ExampleKinds :
        LET ex == NextExample(kind)
            extended == DictGet(cli_options, "all") \o DictGet(cli_options, ex.name)
        IN
        /\ ~Blacklisted(ex.name)
        /\ ~NotWhitelisted(ex.name)
        /\ examples' = Append(examples, ex)
        /\ FreshExample_next
        /\ options' = extended
        /\ cli_options' = IF "all" \in DOMAIN cli_options
                          THEN [cli_options EXCEPT !["all"] = extended]
                          ELSE cli_options
    /\ pc' = "launch"
    /\ UNCHANGED <<unitVars, inputVars, records>>

RunExample ==
    /\ pc = "next"
    /\ Len(examples) < MaxExamples
    /\ \E kind \in ExampleKinds :
        LET ex == NextExample(kind)
            extended == DictGet(cli_options, "all") \o DictGet(cli_options, ex.name)
        IN
        /\ ~Blacklisted(ex.name)
        /\ ~NotWhitelisted(ex.name)
        /\ examples' = Append(examples, ex)
        /\ FreshExample_next
        /\ options' = extended
        /\ cli_options' = IF "all" \in DOMAIN cli_options
                          THEN [cli_options EXCEPT !["all"] = extended]
                          ELSE cli_options
    /\ pc' = "launch"
    /\ UNCHANGED <<unitVars, inputVars, records>>

\* the handler letting the exception escape run_examples
CatchAll_reraise ==
    /\ pc = "raised"
    /\ pc' = "done"
    /\ UNCHANGED <<unitVars, inputVars, cli_options, runVars, launchVars, waitVars,
                   applications, calls, exc>>

\* the handler recording the id of the job it gave up on
CatchAll_keeps_job_id ==
    /\ pc = "raised"
    /\ records' = Append(records,
            ReportRecord(example.name, "ERROR", job_id, <<>>, None, "trace"))
    /\ pc' = "next"
    /\ UNCHANGED <<unitVars, inputVars, cli_options, examples, launchVars, waitVars,
                   applications, calls, exc>>

\* the bare except of _get_example_result
CatchAll ==
    /\ pc = "raised"
    /\ records' = Append(records,
            ReportRecord(example.name, "ERROR", None, <<>>, None, "trace"))
    /\ pc' = "next"
    /\ UNCHANGED <<unitVars, inputVars, cli_options, examples, launchVars, waitVars,
                   applications, calls, exc>>

\* list(map(...)) has exhausted the iterable
Finish ==
    /\ pc = "next"
    /\ pc' = "done"
    /\ UNCHANGED <<unitVars, inputVars, cli_options, runVars, launchVars, waitVars,
                   applications, calls, exc>>

\* ------------------------------------------------------------------ launch
LaunchNormal ==
    /\ pc = "launch"
    /\ example.kind = "NormalExample"
    /\ launched' = TRUE
    /\ pc' = "submit"
    /\ UNCHANGED <<unitVars, inputVars, cli_options, runVars, buildVars, options, tmp_exists, job_properties,
                   job_id, submit_rc, waitVars, applications, calls, exc>>

\* with tempfile.TemporaryDirectory() as tmp
LaunchFluent ==
    /\ pc = "launch"
    /\ example.kind \in {"FluentExample", "FluentExampleValidateOnly"}
    /\ launched' = TRUE
    /\ tmp_exists' = TRUE
    /\ pc' = "compile"
    /\ UNCHANGED <<unitVars, inputVars, cli_options, runVars, buildVars, options, job_properties, job_id,
                   submit_rc, waitVars, applications, calls, exc>>

BuildFailure ==
    ReportRecord(example.name, "ERROR", None, <<>>, None, "Oozie subprocess failed")

\* what build_example returns: the path of the jar or an OozieSubprocessResult
CompileFailed == "OozieSubprocessResult: Failed to build fluent job"
PackageFailed == "OozieSubprocessResult: Failed to create jar file"
JarFile == "fluent.jar"

\* build_example: javac
BuildCompile ==
    /\ pc = "compile"
    /\ calls' = Append(calls, "javac")
    /\ \/ /\ pc' = "jar"
          /\ UNCHANGED <<records, tmp_exists, exc, jar_path>>
       \/ /\ jar_path' = CompileFailed
          /\ ReturnRecord(BuildFailure)
          /\ UNCHANGED exc
       \/ /\ Raise("OSError")
          /\ UNCHANGED <<records, jar_path>>
    /\ UNCHANGED <<unitVars, inputVars, cli_options, examples, return_code, options,
                   job_properties, job_id, submit_rc, launched, waitVars, applications>>

\* the launch going on with the jar of a failed packaging step
BuildJar_goes_on ==
    /\ pc = "jar"
    /\ calls' = Append(calls, "jar")
    /\ \/ /\ jar_path' = JarFile
          /\ pc' = IF example.kind = "FluentExample" THEN "props" ELSE "validate"
          /\ UNCHANGED <<records, tmp_exists>>
       \/ /\ jar_path' = PackageFailed
          /\ pc' = IF example.kind = "FluentExample" THEN "props" ELSE "validate"
          /\ UNCHANGED <<records, tmp_exists>>
    /\ UNCHANGED <<unitVars, inputVars, cli_options, examples, return_code, options,
                   job_properties, job_id, submit_rc, launched, waitVars, applications, exc>>

\* build_example: jar, and the isinstance test of launch
BuildJar ==
    /\ pc = "jar"
    /\ calls' = Append(calls, "jar")
    /\ \/ /\ jar_path' = JarFile
          /\ pc' = IF example.kind = "FluentExample" THEN "props" ELSE "validate"
          /\ UNCHANGED <<records, tmp_exists>>
       \/ /\ jar_path' = PackageFailed
          /\ ReturnRecord(BuildFailure)
    /\ UNCHANGED <<unitVars, inputVars, cli_options, examples, return_code, options,
                   job_properties, job_id, submit_rc, launched, waitVars, applications, exc>>

\* "\n".join(lines)
RECURSIVE Join(_)
Join(lines) ==
    IF lines = <<>> THEN ""
    ELSE IF Len(lines) = 1 THEN lines[1]
    ELSE lines[1] \o "\n" \o Join(Tail(lines))

\* the text create_job_properties hands to file.write
create_job_properties(opts, oozie_version) ==
    LET job_options == <<"queueName=default", "examplesRoot=examples",
                         "projectVersion=" \o oozie_version>> \o opts
    IN  Join(job_options)

\* the file opened in a mode that keeps what it held
OpenWrite_append(old, text) == old \o text

\* job_properties_file.open("w") and file.write(text): the content afterwards
OpenWrite(old, text) == text

CreateJobProperties ==
    /\ pc = "props"
    /\ job_properties' = OpenWrite(job_properties,
                                   create_job_properties(options, "5.1.0"))
    /\ pc' = "submit"
    /\ UNCHANGED <<unitVars, inputVars, cli_options, runVars, buildVars, options, tmp_exists, job_id,
                   submit_rc, launched, waitVars, applications, calls, exc>>

\* exit codes of the validation command
ExitCodes == {0, 1, 2}

\* the result taken from the sign of the exit code
ValidationResult_by_sign(code) ==
    IF code >= 0 THEN "SUCCEEDED" ELSE "ERROR"

\* if return_code == 0: SUCCEEDED else: ERROR
ValidationResult(code) ==
    IF code = 0 THEN "SUCCEEDED" ELSE "ERROR"

\* FluentExampleValidateOnly.launch after the build
Validate ==
    /\ pc = "validate"
    /\ calls' = Append(calls, "validatejar")
    /\ \E code \in ExitCodes :
        /\ return_code' = code
        /\ ReturnRecord(ReportRecord(example.name, ValidationResult(code),
                                     None, <<>>, "validate stdout", "validate stderr"))
    /\ UNCHANGED <<unitVars, inputVars, cli_options, examples, jar_path, options,
                   job_properties, job_id, submit_rc, launched, waitVars, applications, exc>>

\* the submission raising on a non-zero exit code instead of returning it
Submit_nonzero_raises ==
    /\ pc = "submit"
    /\ calls' = Append(calls, "submit")
    /\ \/ /\ submit_rc' = 1
          /\ Raise("CalledProcessError")
          /\ UNCHANGED <<records, job_id>>
       \/ /\ submit_rc' = 0
          /\ job_id' = JobIds[Len(examples)]
          /\ pc' = "wait"
          /\ UNCHANGED <<records, tmp_exists, exc>>
       \/ /\ submit_rc' = 0
          /\ Raise(NoJobId)
          /\ UNCHANGED <<records, job_id>>
    /\ UNCHANGED <<unitVars, inputVars, cli_options, examples, buildVars, options, job_properties, launched,
                   waitVars, applications>>

\* _launch_oozie_job_by_command and the isinstance test of its caller
Submit ==
    /\ pc = "submit"
    /\ calls' = Append(calls, "submit")
    /\ \/ \* non-zero exit code
          /\ submit_rc' = 1
          /\ ReturnRecord(ReportRecord(example.name, "ERROR", None, <<>>, None, None))
          /\ UNCHANGED <<job_id, exc>>
       \/ \* exit code 0, "job:(.*)" matches
          /\ submit_rc' = 0
          /\ job_id' = JobIds[Len(examples)]
          /\ pc' = "wait"
          /\ UNCHANGED <<records, tmp_exists, exc>>
       \/ \* exit code 0, no match
          /\ submit_rc' = 0
          /\ Raise(NoJobId)
          /\ UNCHANGED <<records, job_id>>
    /\ UNCHANGED <<unitVars, inputVars, cli_options, examples, buildVars, options, job_properties, launched,
                   waitVars, applications>>

\* -------------------------------------------------- wait_for_job_to_finish
\* query_job: a captured status, an OozieSubprocessResult, or ValueError
QueryJob(then) ==
    /\ Count(calls, "query") < MaxQueries
    /\ calls' = Append(calls, "query")
    /\ \/ \E r \in RawStatuses \cup {QueryFailed} :
            /\ status' = r
            /\ replies' = Append(replies, r)
            /\ pc' = then
            /\ UNCHANGED <<exc, tmp_exists>>
       \/ /\ Raise(NoStatus)
          /\ UNCHANGED <<status, replies>>

WaitStart ==
    /\ pc = "wait"
    /\ elapsed' = 0
    /\ QueryJob("loop")
    /\ UNCHANGED <<unitVars, inputVars, cli_options, runVars, buildVars, options, job_properties, job_id,
                   submit_rc, launched, final_status, applications, kill_rc>>

\* while status == "RUNNING" and (time.time() - start_time) < timeout
LoopCondition == status = "RUNNING" /\ elapsed < timeout

\* a sleep during which no time passes
WaitSleep_clock_stands ==
    /\ pc = "loop"
    /\ LoopCondition
    /\ calls' = Append(calls, "sleep")
    /\ pc' = "requery"
    /\ UNCHANGED <<unitVars, inputVars, cli_options, runVars, launchVars, status, final_status,
                   kill_rc, replies, applications, exc, elapsed>>

WaitSleep ==
    /\ pc = "loop"
    /\ LoopCondition
    /\ elapsed' = elapsed + poll_time
    /\ calls' = Append(calls, "sleep")
    /\ pc' = "requery"
    /\ UNCHANGED <<unitVars, inputVars, cli_options, runVars, launchVars, status, final_status,
                   kill_rc, replies, applications, exc>>

WaitQuery ==
    /\ pc = "requery"
    /\ QueryJob("loop")
    /\ UNCHANGED <<unitVars, inputVars, cli_options, runVars, buildVars, options, job_properties, job_id,
                   submit_rc, launched, elapsed, final_status, applications, kill_rc>>

\* the kill issued at the deadline whatever the last status was
WaitTimedOut_kills_finished ==
    /\ pc = "loop"
    /\ ~LoopCondition
    /\ elapsed >= timeout
    /\ calls' = Append(calls, "kill")
    /\ kill_rc' \in {0, 1}
    /\ final_status' = "TIMED_OUT"
    /\ pc' = "apps"
    /\ UNCHANGED <<unitVars, inputVars, cli_options, runVars, launchVars, status, elapsed,
                   replies, applications, exc>>

\* a timed-out job going straight to the log fetch, its applications never
\* queried
WaitTimedOut_skips_applications ==
    /\ pc = "loop"
    /\ ~LoopCondition
    /\ status = "RUNNING"
    /\ calls' = Append(calls, "kill")
    /\ kill_rc' \in {0, 1}
    /\ final_status' = "TIMED_OUT"
    /\ pc' = "logs"
    /\ UNCHANGED <<unitVars, inputVars, cli_options, runVars, launchVars, status, elapsed,
                   replies, applications, exc>>

\* the timeout branch returning only once a kill has succeeded
WaitTimedOut_until_killed ==
    /\ pc = "loop"
    /\ ~LoopCondition
    /\ status = "RUNNING"
    /\ calls' = Append(calls, "kill")
    /\ \E rc \in {0, 1} :
        /\ kill_rc' = rc
        /\ IF rc = 0
           THEN final_status' = "TIMED_OUT" /\ pc' = "apps"
           ELSE UNCHANGED <<final_status, pc>>
    /\ Count(calls, "kill") < 2
    /\ UNCHANGED <<unitVars, inputVars, cli_options, runVars, launchVars, status, elapsed,
                   replies, applications, exc>>

\* the timeout branch without its kill_job call
WaitTimedOut_no_kill ==
    /\ pc = "loop"
    /\ ~LoopCondition
    /\ status = "RUNNING"
    /\ final_status' = "TIMED_OUT"
    /\ pc' = "apps"
    /\ UNCHANGED <<unitVars, inputVars, cli_options, runVars, launchVars, status, elapsed,
                   kill_rc, replies, applications, calls, exc>>

\* if status == "RUNNING": kill_job(job_id); return TIMED_OUT
WaitTimedOut ==
    /\ pc = "loop"
    /\ ~LoopCondition
    /\ status = "RUNNING"
    /\ calls' = Append(calls, "kill")
    /\ kill_rc' \in {0, 1}
    /\ final_status' = "TIMED_OUT"
    /\ pc' = "apps"
    /\ UNCHANGED <<unitVars, inputVars, cli_options, runVars, launchVars, status, elapsed,
                   replies, applications, exc>>

\* the deadline tested before the status: a job that finished late is
\* reported TIMED_OUT
WaitReturn_deadline_first ==
    /\ pc = "loop"
    /\ ~LoopCondition
    /\ status # "RUNNING"
    /\ IF elapsed >= timeout
       THEN /\ final_status' = "TIMED_OUT"
            /\ pc' = "apps"
            /\ UNCHANGED <<exc, tmp_exists>>
       ELSE IF ResultLookup(status) = KeyError
       THEN /\ Raise(NoSuchResult)
            /\ UNCHANGED final_status
       ELSE /\ final_status' = ResultLookup(status)
            /\ pc' = "apps"
            /\ UNCHANGED <<exc, tmp_exists>>
    /\ UNCHANGED <<unitVars, inputVars, cli_options, runVars, buildVars, options, job_properties, job_id,
                   submit_rc, launched, status, elapsed, kill_rc, replies, applications, calls>>

\* else: return report.Result[status]
WaitReturn ==
    /\ pc = "loop"
    /\ ~LoopCondition
    /\ status # "RUNNING"
    /\ IF ResultLookup(status) = KeyError
       THEN /\ Raise(NoSuchResult)
            /\ UNCHANGED final_status
       ELSE /\ final_status' = ResultLookup(status)
            /\ pc' = "apps"
            /\ UNCHANGED <<exc, tmp_exists>>
    /\ UNCHANGED <<unitVars, inputVars, cli_options, runVars, buildVars, options, job_properties, job_id,
                   submit_rc, launched, status, elapsed, kill_rc, replies, applications, calls>>

\* the wall clock advances while a command runs
Tick ==
    /\ pc \in {"loop", "requery"}
    /\ elapsed < MaxClock
    /\ elapsed' = elapsed + 1
    /\ UNCHANGED <<unitVars, inputVars, cli_options, runVars, pc, launchVars, status,
                   final_status, kill_rc, replies, applications, calls, exc>>

\* ------------------------------------------ _launch_and_wait_for_oozie_job
QueryApplications ==
    /\ pc = "apps"
    /\ calls' = Append(calls, "applications")
    /\ \/ \E doc \in Documents :
            IF ExternalIdMissing(doc)
            THEN /\ Raise(NoExternalId)
                 /\ UNCHANGED applications
            ELSE /\ applications' = get_yarn_applications_of_job(doc)
                 /\ pc' = "logs"
                 /\ UNCHANGED <<exc, tmp_exists>>
       \/ /\ Raise("URLError")
          /\ UNCHANGED applications
    /\ UNCHANGED <<unitVars, inputVars, cli_options, runVars, buildVars, options, job_properties, job_id,
                   submit_rc, launched, waitVars>>

\* the record of a monitored job built without the logs of the engine
FetchLogs_without_logs ==
    /\ pc = "logs"
    /\ calls' = Append(calls, "logs")
    /\ \/ /\ ReturnRecord(ReportRecord(example.name, final_status, job_id, applications,
                                       None, None))
          /\ UNCHANGED exc
       \/ /\ Raise("URLError")
          /\ UNCHANGED records
    /\ UNCHANGED <<unitVars, inputVars, cli_options, examples, buildVars, options, job_properties,
                   job_id, submit_rc, launched, waitVars, applications>>

FetchLogs ==
    /\ pc = "logs"
    /\ calls' = Append(calls, "logs")
    /\ \/ /\ ReturnRecord(ReportRecord(example.name, final_status, job_id, applications,
                                       "Oozie logs", "Oozie error logs"))
          /\ UNCHANGED exc
       \/ /\ Raise("URLError")
          /\ UNCHANGED records
    /\ UNCHANGED <<unitVars, inputVars, cli_options, examples, buildVars, options, job_properties, job_id,
                   submit_rc, launched, waitVars, applications>>

\* ---------------------------------------------------------- specifications
Next ==
    \/ SkipBlacklisted
    \/ SkipNotWhitelisted
    \/ RunExample
    \/ LaunchNormal
    \/ LaunchFluent
    \/ BuildCompile
    \/ BuildJar
    \/ CreateJobProperties
    \/ Validate
    \/ Submit
    \/ WaitStart
    \/ WaitSleep
    \/ WaitQuery
    \/ WaitTimedOut
    \/ WaitReturn
    \/ QueryApplications
    \/ FetchLogs
    \/ CatchAll
    \/ Finish

Spec == Init /\ [][Next]_vars

\* wait_for_job_to_finish entered for the job of a submitted NormalExample:
\* the state Spec is in after RunExample, LaunchNormal and a successful Submit,
\* with poll_time and timeout drawn from wider ranges
WaitInit ==
    /\ whitelist = NoWhitelist
    /\ blacklist = {}
    /\ cli_options = ("hive2" :> <<"jdbcURL=jdbc">>)
    /\ poll_time \in 0..MaxPollTime
    /\ timeout \in 0..MaxTimeout
    /\ examples = <<[name |-> ExampleNames[1], kind |-> "NormalExample"]>>
    /\ pc = "wait"
    /\ records = <<>>
    /\ options = DictGet(cli_options, "all") \o DictGet(cli_options, ExampleNames[1])
    /\ tmp_exists = FALSE
    /\ job_properties = ""
    /\ job_id = JobIds[1]
    /\ status = None
    /\ elapsed = 0
    /\ final_status = None
    /\ applications = <<>>
    /\ kill_rc = NoExit
    /\ submit_rc = 0
    /\ launched = TRUE
    /\ calls = <<"submit">>
    /\ replies = <<>>
    /\ exc = None
    /\ jar_path = None
    /\ return_code = NoExit
    /\ NotCalled

WaitNext ==
    \/ WaitStart
    \/ WaitSleep
    \/ WaitQuery
    \/ WaitTimedOut
    \/ WaitReturn
    \/ Tick

WaitSpec == WaitInit /\ [][WaitNext]_vars

\* the interpreter keeps executing the function until it returns or raises
WaitFairSpec == WaitSpec /\ WF_vars(WaitNext)

\* ------------------------------------------- functions called on their own
\* the runner is not running: none of its variables is in use
Idle ==
    /\ whitelist = NoWhitelist
    /\ blacklist = {}
    /\ cli_options = ("hive2" :> <<"jdbcURL=jdbc">>)
    /\ poll_time = MainPollTime
    /\ timeout = 0
    /\ examples = <<>>
    /\ pc = "done"
    /\ records = <<>>
    /\ FreshExample

programVars == <<inputVars, cli_options, runVars, pc, launchVars, waitVars,
                 applications, calls, exc>>

\* create_job_properties(job_properties_file, options, oozie_version) called
\* on a path where a file may be left from before
Options == {"option1=A", "option2=B"}
OptionLists == UNION {[1..n -> Options] : n \in 0..MaxOptions}
OozieVersions == {"5.1.0", "4.3.1"}

PropsInit ==
    /\ Idle
    /\ argument \in [options : OptionLists,
                     oozie_version : OozieVersions,
                     job_properties_file : {"", "stale=1\n"}]
    /\ returned = <<>>

CallCreateJobProperties ==
    /\ Len(returned) < MaxCalls
    /\ argument' = [argument EXCEPT !.job_properties_file =
            OpenWrite(@, create_job_properties(argument.options,
                                               argument.oozie_version))]
    /\ returned' = Append(returned, None)
    /\ UNCHANGED programVars

PropsNext == CallCreateJobProperties

PropsSpec == PropsInit /\ [][PropsNext]_vars

\* _get_application_name_from_external_id(external_id) called on its own
IdAlphabet == {"j", "1", "_"}
UnprefixedId ==
    <<"1", "5", "3", "9", "5", "9", "9", "7", "5", "7", "2", "3", "0", "_", "0", "0", "0", "1">>
JobId ==
    <<"j", "o", "b", "_">> \o UnprefixedId
ApplicationId ==
    APPLICATION \o <<"_">> \o UnprefixedId
ExternalIds ==
    UNION {[1..n -> IdAlphabet] : n \in 1..MaxIdLen}
        \cup {UnprefixedId, JobId, ApplicationId}

NameInit ==
    /\ Idle
    /\ argument \in ExternalIds
    /\ returned = <<>>

CallGetApplicationName ==
    /\ Len(returned) < MaxCalls
    /\ returned' = Append(returned, get_application_name_from_external_id(argument))
    /\ UNCHANGED <<programVars, argument>>

NameNext == CallGetApplicationName

NameSpec == NameInit /\ [][NameNext]_vars

\* _get_application_name_from_external_id called on an external id and then
\* on what it returned
NormalizeFirst ==
    /\ returned = <<>>
    /\ CallGetApplicationName

NormalizeAgain ==
    /\ returned # <<>>
    /\ Len(returned) < MaxCalls
    /\ returned' = Append(returned,
            get_application_name_from_external_id(returned[Len(returned)]))
    /\ UNCHANGED <<programVars, argument>>

NormalizeNext ==
    \/ NormalizeFirst
    \/ NormalizeAgain

NormalizeSpec == NameInit /\ [][NormalizeNext]_vars

\* get_yarn_applications_of_job called on its own: `argument` is the document
\* the metadata endpoint answered with
ActionChoices ==
    {Action("str", ExtDash), Action("null", <<>>), Action("absent", <<>>),
     Action("str", ExtJob), Action("str", ExtApp)}
AllDocuments ==
    {[hasActions |-> FALSE, actions |-> <<>>]}
        \cup {[hasActions |-> TRUE, actions |-> a] :
                a \in UNION {[1..n -> ActionChoices] : n \in 0..MaxActions}}

\* what a call ends with: the value it returns or the exception it raises
Returns(value) == [raised |-> None, value |-> value]
Raises(e) == [raised |-> e, value |-> <<>>]

YarnInit ==
    /\ Idle
    /\ argument \in AllDocuments
    /\ returned = <<>>

CallGetYarnApplications ==
    /\ Len(returned) < MaxCalls
    /\ returned' = Append(returned,
            IF ExternalIdMissing(argument)
            THEN Raises(NoExternalId)
            ELSE Returns(get_yarn_applications_of_job(argument)))
    /\ UNCHANGED <<programVars, argument>>

YarnNext == CallGetYarnApplications

YarnSpec == YarnInit /\ [][YarnNext]_vars

\* ---------------------------------------------------------------- output.py
\* str() of a tuple of characters
RECURSIVE Str(_)
Str(chars) == IF chars = <<>> THEN "" ELSE Head(chars) \o Str(Tail(chars))

\* c * n
RECURSIVE Repeat(_, _)
Repeat(c, n) == IF n = 0 THEN "" ELSE c \o Repeat(c, n - 1)

CONTAINER == <<"c", "o", "n", "t", "a", "i", "n", "e", "r">>

\* an entry of an application's log root: a directory with the files it holds,
\* or a regular file
DirEntry(name, is_dir, files, out, err) ==
    [name |-> name, is_dir |-> is_dir, files |-> files, stdout |-> out, stderr |-> err]

Container1 == DirEntry(CONTAINER \o <<"_", "1">>, TRUE, {"stdout", "stderr"}, "out 1", "err 1")
Container2 == DirEntry(CONTAINER \o <<"_", "2">>, TRUE, {"stdout", "stderr"}, "out 2", "err 2")
Container3 == DirEntry(CONTAINER \o <<"_", "3">>, TRUE, {"stdout", "stderr"}, "out 3", "err 3")
\* a container directory without a stdout file
ContainerNoStdout == DirEntry(CONTAINER \o <<"_", "4">>, TRUE, {"stderr"}, "", "err 4")
\* a directory that is not a container directory
OtherDir == DirEntry(<<"t", "m", "p">>, TRUE, {"stdout", "stderr"}, "out tmp", "err tmp")
\* a regular file whose name starts with "container"
ContainerFile == DirEntry(CONTAINER \o <<".", "l", "o", "g">>, FALSE, {}, "", "")

App1 == APPLICATION \o <<"_", "1">>
App2 == APPLICATION \o <<"_", "2">>

\* report_and_log_dir/nodemanager/hadoop-logs: the application roots that
\* exist, each with its entries
LogDir(root1, root2) ==
    [a \in {x \in {App1, App2} : (x = App1 /\ root1.exists) \/ (x = App2 /\ root2.exists)}
        |-> IF a = App1 THEN root1.entries ELSE root2.entries]

NoRoot == [exists |-> FALSE, entries |-> {}]
Root(entries) == [exists |-> TRUE, entries |-> entries]

LogDirs ==
    {LogDir(r1, r2) :
        r1 \in {NoRoot} \cup {Root(e) : e \in SUBSET {Container1, Container2, OtherDir,
                                                      ContainerFile, ContainerNoStdout}},
        r2 \in {NoRoot, Root({Container3})}}

\* the filter taking every directory
IsContainer_any_directory(entry) == entry.is_dir

\* dir_path.is_dir() and dir_path.name.startswith("container")
IsContainer(entry) == entry.is_dir /\ StartsWith(entry.name, CONTAINER)

\* the orders in which iterdir() may yield the container directories of an
\* application root; the entries the filter drops have no part in the result
Enumerations(S) ==
    {f \in [1..Cardinality(S) -> S] : \A i, j \in 1..Cardinality(S) : i # j => f[i] # f[j]}

Listings(dir, application_id) ==
    IF application_id \in DOMAIN dir
    THEN Enumerations({e \in dir[application_id] : IsContainer(e)})
    ELSE {<<>>}

\* one listing for every application of the list
ListingChoices(dir, apps) ==
    {ls \in [1..Len(apps) -> UNION {Listings(dir, apps[i]) : i \in 1..Len(apps)}] :
        \A i \in 1..Len(apps) : ls[i] \in Listings(dir, apps[i])}

\* get_logs_for_yarn_application: the dictionary as the sequence of its items
\* (container name, stdout text, stderr text) in insertion order
get_logs_for_yarn_application(application_id, dir, listing) ==
    IF application_id \notin DOMAIN dir THEN <<>>
    ELSE [i \in 1..Len(listing) |->
            <<Str(listing[i].name), listing[i].stdout, listing[i].stderr>>]

\* stdout_file.open() or stderr_file.open() raises for a container of the listing
OpenFails(listing) ==
    \E i \in 1..Len(listing) : ~({"stdout", "stderr"} \subseteq listing[i].files)

application_header(application_id) ==
    LET asterisks == Repeat("*", Len(application_id) + 4)
    IN  asterisks \o "\n**" \o Str(application_id) \o "**\n" \o asterisks \o "\n\n"

container_header(container_id) == "**" \o container_id \o "**\n\n"

\* what the loop over container_logs.items() writes to one of the two
\* streams: k = 2 for stdout, k = 3 for stderr
RECURSIVE WriteContainers(_, _)
WriteContainers(container_logs, k) ==
    IF container_logs = <<>> THEN ""
    ELSE container_header(Head(container_logs)[1]) \o Head(container_logs)[k] \o "\n\n"
            \o WriteContainers(Tail(container_logs), k)

\* what the loop over record.applications writes to one of the two streams
RECURSIVE WriteApplications(_, _, _, _)
WriteApplications(apps, dir, listings, k) ==
    IF apps = <<>> THEN ""
    ELSE application_header(Head(apps))
            \o WriteContainers(
                 get_logs_for_yarn_application(Head(apps), dir, Head(listings)), k)
            \o WriteApplications(Tail(apps), dir, Tail(listings), k)

printable_logs_for_oozie_job(record, dir, listings) ==
    IF \E i \in 1..Len(listings) : OpenFails(listings[i])
    THEN Raises("FileNotFoundError")
    ELSE Returns(<<WriteApplications(record.applications, dir, listings, 2),
                   WriteApplications(record.applications, dir, listings, 3)>>)

\* an xml element: tag, type attribute, text
Element(tag, type, text) == [tag |-> tag, type |-> type, text |-> text]

\* the chain with the types of two results exchanged
Markers_killed_as_failed(result) ==
    IF result = "SKIPPED" THEN <<Element("skipped", None, None)>>
    ELSE IF result = "TIMED_OUT" THEN <<Element("failure", "timeout", None)>>
    ELSE IF result = "KILLED" THEN <<Element("failure", "failed", None)>>
    ELSE IF result = "FAILED" THEN <<Element("failure", "killed", None)>>
    ELSE IF result = "ERROR" THEN <<Element("error", "error", None)>>
    ELSE <<>>

\* the if/elif chain of generate_report
Markers(result) ==
    IF result = "SKIPPED" THEN <<Element("skipped", None, None)>>
    ELSE IF result = "TIMED_OUT" THEN <<Element("failure", "timeout", None)>>
    ELSE IF result = "KILLED" THEN <<Element("failure", "killed", None)>>
    ELSE IF result = "FAILED" THEN <<Element("failure", "failed", None)>>
    ELSE IF result = "ERROR" THEN <<Element("error", "error", None)>>
    ELSE <<>>

\* the yarn part put in front of the record's own text
ElementText_yarn_first(own, yarn_part) ==
    IF own # None THEN yarn_part \o own ELSE yarn_part

\* record.stdout + stdout_yarn_part if record.stdout is not None else stdout_yarn_part
ElementText(own, yarn_part) ==
    IF own # None THEN own \o yarn_part ELSE yarn_part

\* the test case built from a record and the pair printable_logs_for_oozie_job
\* returned for it
Testcase(record, yarn) ==
    [classname |-> "OozieExamples",
     name |-> record.name,
     children |-> Markers(record.result) \o
        <<Element("system-out", None,
                  ElementText(record.stdout, "\n\nYarn stdout:\n\n" \o yarn[1])),
          Element("system-err", None,
                  ElementText(record.stderr, "\n\nYarn stderr:\n\n" \o yarn[2]))>>]

\* listings[i] holds the listings of the applications of report_records[i]
generate_report(report_records, dir, listings) ==
    LET logs == [i \in 1..Len(report_records) |->
                    printable_logs_for_oozie_job(report_records[i], dir, listings[i])]
    IN  IF \E i \in 1..Len(report_records) : logs[i].raised # None
        THEN Raises("FileNotFoundError")
        ELSE Returns([tests |-> ToString(Len(report_records)),
                      testcases |-> [i \in 1..Len(report_records) |->
                                        Testcase(report_records[i], logs[i].value)]])

\* printable_logs_for_oozie_job called on its own, more than once, for one
\* record and one log directory
ApplicationLists == UNION {[1..n -> {App1, App2}] : n \in 0..MaxApps}

LogsInit ==
    /\ Idle
    /\ argument \in
        [record : {ReportRecord("map-reduce", "FAILED", JobIds[1], apps, None, None) :
                        apps \in ApplicationLists},
         report_and_log_dir : LogDirs]
    /\ returned = <<>>

CallPrintableLogs ==
    /\ Len(returned) < MaxCalls
    /\ \E listings \in ListingChoices(argument.report_and_log_dir,
                                      argument.record.applications) :
        returned' = Append(returned,
            printable_logs_for_oozie_job(argument.record, argument.report_and_log_dir,
                                         listings))
    /\ UNCHANGED <<programVars, argument>>

LogsNext == CallPrintableLogs

LogsSpec == LogsInit /\ [][LogsNext]_vars

\* generate_report called on its own with the records of a run
ReportRecords ==
    {ReportRecord("example " \o result, result, shape[1], shape[2], shape[3], shape[4]) :
        result \in ResultNames,
        shape \in {<<None, <<>>, None, None>>,
                   <<JobIds[1], <<App1, App2>>, "Stdout message", "Stderr message">>,
                   <<JobIds[2], <<App2>>, None, "trace">>}}

ReportLogDirs ==
    {LogDir(r1, r2) :
        r1 \in {NoRoot, Root({Container1, Container2}),
                Root({Container1, OtherDir, ContainerFile}),
                Root({Container1, ContainerNoStdout})},
        r2 \in {NoRoot, Root({Container3})}}

ReportInit ==
    /\ Idle
    /\ argument \in
        [report_records : UNION {[1..n -> ReportRecords] : n \in 0..MaxRecords},
         report_and_log_dir : ReportLogDirs]
    /\ returned = <<>>

\* the listings of every record's applications
ReportListingChoices(dir, report_records) ==
    {ls \in [1..Len(report_records) ->
                UNION {ListingChoices(dir, report_records[i].applications) :
                        i \in 1..Len(report_records)}] :
        \A i \in 1..Len(report_records) :
            ls[i] \in ListingChoices(dir, report_records[i].applications)}

CallGenerateReport ==
    /\ returned = <<>>
    /\ \E listings \in ReportListingChoices(argument.report_and_log_dir,
                                            argument.report_records) :
        returned' = <<generate_report(argument.report_records,
                                      argument.report_and_log_dir, listings)>>
    /\ UNCHANGED <<programVars, argument>>

ReportNext == CallGenerateReport

ReportSpec == ReportInit /\ [][ReportNext]_vars

\* ------------------------------------------------- get_all_fluent_examples
JAVA == <<".", "j", "a", "v", "a">>
FLUENT == <<"F", "l", "u", "e", "n", "t", "_">>

\* str.lstrip(chars), str.rstrip(chars): chars is a set of characters
RECURSIVE LStrip(_, _)
LStrip(s, chars) ==
    IF s # <<>> /\ Head(s) \in chars THEN LStrip(Tail(s), chars) ELSE s
RECURSIVE RStrip(_, _)
RStrip(s, chars) ==
    IF s # <<>> /\ s[Len(s)] \in chars THEN RStrip(SubSeq(s, 1, Len(s) - 1), chars) ELSE s

\* str.strip(chars): every leading and trailing character that is in chars
strip(s, chars) == RStrip(LStrip(s, {chars[i] : i \in 1..Len(chars)}),
                          {chars[i] : i \in 1..Len(chars)})

\* Path.stem: the file name without its last suffix
stem(file_name) ==
    LET dots == {i \in 2..(Len(file_name) - 1) : file_name[i] = "."}
    IN IF dots = {} THEN file_name
       ELSE SubSeq(file_name, 1, (CHOOSE i \in dots : \A j \in dots : j <= i) - 1)

\* FluentExampleBase.name
FluentName(class_name) == FLUENT \o class_name

\* into_fluent_example: the example made for a java file
into_fluent_example(java_file, validate_only) ==
    [name |-> FluentName(strip(java_file, JAVA)),
     class_name |-> strip(java_file, JAVA),
     kind |-> IF FluentName(stem(java_file)) \in validate_only
              THEN "FluentExampleValidateOnly"
              ELSE "FluentExample"]

\* names of example classes: two of the engine's own examples and every name
\* of up to MaxNameLen characters that starts with S
ClassAlphabet == {"S", "a", "v"}
ClassNames ==
    {<<"S">> \o rest : rest \in UNION {[1..n -> ClassAlphabet] : n \in 0..(MaxNameLen - 1)}}
        \cup {<<"S", "p", "a", "r", "k">>, <<"S", "h", "e", "l", "l">>}

\* the files of the fluentjob source directory in the order iterdir() yields
\* them
JavaFileLists ==
    {files \in UNION {[1..n -> {c \o JAVA : c \in ClassNames}] : n \in 0..MaxFiles} :
        \A i, j \in 1..Len(files) : i # j => files[i] # files[j]}

ValidateOnlyChoices ==
    SUBSET {FluentName(<<"S", "p", "a", "r", "k">>), FluentName(<<"S", "a">>),
            FluentName(<<"S">>)}

\* get_all_fluent_examples(example_dir, validate_only) called on its own:
\* `argument` holds the content of the example directory and validate_only
FluentInit ==
    /\ Idle
    /\ argument \in [java_files : JavaFileLists,
                     validate_only : ValidateOnlyChoices,
                     library_exists : BOOLEAN]
    /\ returned = <<>>

CallGetAllFluentExamples ==
    /\ returned = <<>>
    /\ \/ \* _get_oozie_version: the request fails
          returned' = <<Raises("URLError")>>
       \/ returned' =
            <<IF ~argument.library_exists
              THEN Raises("FileNotFoundError")
              ELSE Returns([i \in 1..Len(argument.java_files) |->
                        into_fluent_example(argument.java_files[i],
                                            argument.validate_only)])>>
    /\ UNCHANGED <<programVars, argument>>

FluentNext == CallGetAllFluentExamples

FluentSpec == FluentInit /\ [][FluentNext]_vars

\* -------------------------------------------------------------------- main
\* a record as run_examples leaves it for an example of the given result
RunRecord(i, result) ==
    IF result \in {"SKIPPED", "ERROR"}
    THEN ReportRecord(ExampleNames[i], result, None, <<>>, None, None)
    ELSE ReportRecord(ExampleNames[i], result, JobIds[i], <<>>,
                      "Oozie logs", "Oozie error logs")

\* the report_records file does not exist
NoPickle == <<"no file">>

\* main after run_examples has returned report_records (pc = "done"), or at
\* the start of its try block (pc = "main")
MainInit ==
    /\ whitelist = NoWhitelist
    /\ blacklist = {}
    /\ cli_options = ("hive2" :> <<"jdbcURL=jdbc">>)
    /\ poll_time = MainPollTime
    /\ timeout = 0
    /\ FreshExample
    /\ argument = [report_records_file |-> NoPickle]
    /\ returned = <<>>
    /\ \/ /\ pc = "done"
          /\ \E n \in 0..MaxExamples : \E results \in [1..n -> ResultNames] :
                /\ examples = [i \in 1..n |->
                                [name |-> ExampleNames[i], kind |-> "NormalExample"]]
                /\ records = [i \in 1..n |-> RunRecord(i, results[i])]
       \/ /\ pc = "main"
          /\ examples = <<>>
          /\ records = <<>>

\* what the try block raises before run_examples returns: SystemExit of
\* parse_args, FileNotFoundError of the example discovery
MainExceptions == {"SystemExit", "FileNotFoundError"}

\* an exception of the try block before report_records is bound
MainRaise ==
    /\ pc = "main"
    /\ \E e \in MainExceptions : exc' = e
    /\ pc' = "except"
    /\ UNCHANGED <<inputVars, cli_options, runVars, launchVars, waitVars,
                   applications, calls, unitVars>>

\* with open(report_records_file, "wb") as file: pickle.dump(report_records, file)
MainDump ==
    /\ pc = "done"
    /\ \/ /\ argument' = [argument EXCEPT !.report_records_file = records]
          /\ pc' = "dumped"
          /\ UNCHANGED exc
       \/ /\ exc' = "OSError"
          /\ pc' = "except"
          /\ UNCHANGED argument
    /\ UNCHANGED <<inputVars, cli_options, runVars, launchVars, waitVars,
                   applications, calls, returned>>

\* except: ... sys.exit(2)
MainExcept ==
    /\ pc = "except"
    /\ returned' = <<2>>
    /\ pc' = "exited"
    /\ UNCHANGED <<inputVars, cli_options, runVars, launchVars, waitVars,
                   applications, calls, exc, argument>>

\* the test counting a timeout as a success
RunSucceeded_but_for_timeouts(report_records) ==
    \A i \in 1..Len(report_records) :
        report_records[i].result \in {"SUCCEEDED", "SKIPPED", "TIMED_OUT"}

\* all(map(lambda r: r.result == SUCCEEDED or r.result == SKIPPED, report_records))
RunSucceeded(report_records) ==
    \A i \in 1..Len(report_records) :
        report_records[i].result = "SUCCEEDED" \/ report_records[i].result = "SKIPPED"

\* if not all(...): sys.exit(1); falling off the end of main exits with 0
MainExit ==
    /\ pc = "dumped"
    /\ returned' = <<IF RunSucceeded(records) THEN 0 ELSE 1>>
    /\ pc' = "exited"
    /\ UNCHANGED <<inputVars, cli_options, runVars, launchVars, waitVars,
                   applications, calls, exc, argument>>

MainNext ==
    \/ MainRaise
    \/ MainDump
    \/ MainExcept
    \/ MainExit

MainSpec == MainInit /\ [][MainNext]_vars

\* ================================================================== claims
\* wait_for_job_to_finish has returned or raised
WaitEnded == job_id # None /\ pc \notin {"wait", "loop", "requery"}

\* wait_for_job_to_finish has returned a Result
WaitReturned == final_status # None

LastReply == replies[Len(replies)]

Queries == Count(calls, "query")
Sleeps == Count(calls, "sleep")
Kills == Count(calls, "kill")

\* the Results the engine's own terminal states map to
EngineResults == {"SUCCEEDED", "FAILED", "KILLED"}

\* every query so far was answered, and answered RUNNING
OnlyRunning ==
    /\ replies # <<>>
    /\ Queries = Len(replies)
    /\ \A i \in 1..Len(replies) : replies[i] = "RUNNING"

\* the replies are k times RUNNING and then an engine terminal status
RunningThenTerminal ==
    /\ replies # <<>>
    /\ LastReply \in EngineResults
    /\ \A i \in 1..(Len(replies) - 1) : replies[i] = "RUNNING"

\* C1: wait_for_job_to_finish returns TIMED_OUT if and only if the elapsed
\* time has reached the timeout and the last queried status is "RUNNING".
C1_TimedOutIffDeadlineWhileRunning ==
    WaitReturned =>
        (final_status = "TIMED_OUT" <=> (status = "RUNNING" /\ elapsed >= timeout))

\* C2: a failed status query never ends the monitoring: after it the monitor
\* is still polling, nothing was raised and no Result was returned.
C2_QueryFailureKeepsPolling ==
    (replies # <<>> /\ LastReply = QueryFailed) =>
        (pc \in {"loop", "requery"} /\ exc = None /\ final_status = None)

\* C3: when the replies were k times RUNNING followed by SUCCEEDED, FAILED or
\* KILLED, the monitor returns the Result of that name after exactly k+1
\* queries and k sleeps, without a kill and without raising; no sleep ever
\* precedes the first query.
C3_TerminalAfterKRunning ==
    /\ (WaitEnded /\ RunningThenTerminal) =>
        /\ final_status = LastReply
        /\ Queries = Len(replies)
        /\ Sleeps = Len(replies) - 1
        /\ Kills = 0
        /\ exc = None
    /\ \A i \in 1..Len(calls) :
        calls[i] = "sleep" => \E j \in 1..(i - 1) : calls[j] = "query"

C3_Witness ==
    /\ replies = <<"RUNNING", "RUNNING", "SUCCEEDED">>
    /\ poll_time = 0
    /\ final_status = "SUCCEEDED"
    /\ Queries = 3
    /\ Sleeps = 2

\* C4: when every status query is answered RUNNING, the monitor that has
\* ended has returned TIMED_OUT after exactly one kill call; and with
\* poll_time >= 1 the monitor does end.
C4_OnlyRunningTimesOutWithOneKill ==
    /\ []((WaitEnded /\ OnlyRunning) => (final_status = "TIMED_OUT" /\ Kills = 1))
    /\ ((poll_time >= 1) => <>WaitEnded)

C4_Witness ==
    /\ timeout = 5
    /\ poll_time = 1
    /\ OnlyRunning
    /\ final_status = "TIMED_OUT"
    /\ Kills = 1
    /\ Queries = 6

\* C5: a reported status that is neither "RUNNING" nor SUCCEEDED, FAILED or
\* KILLED never makes wait_for_job_to_finish return a Result: once the
\* monitor has ended on it, it has raised.
C5_UnknownStatusRaises ==
    (replies # <<>> /\ LastReply \in RawStatuses \ ({"RUNNING"} \cup EngineResults)) =>
        /\ final_status = None
        /\ WaitEnded => exc = NoSuchResult

\* the record of the example being processed, once it exists
LastRecord == records[Len(examples)]

\* the record the bare except builds
CaughtRecord == ReportRecord(example.name, "ERROR", None, <<>>, None, "trace")

\* the protocol mismatches: exit code 0 without a job handle, or a reported
\* status that names no Result
ProtocolMismatch ==
    \/ exc = NoJobId
    \/ exc = NoSuchResult /\ status \in RawStatuses

\* C6 as stated: a protocol mismatch aborts the run, no record is produced
\* for the example and the runner does not return to the next example.
C6_MismatchAbortsRun ==
    ProtocolMismatch => (Len(records) < Len(examples) /\ pc # "next")

\* C6 as amended: a protocol mismatch raised inside launch is caught at the
\* per-example boundary; the step after it appends the record
\* (name, ERROR, None, [], stderr = trace) and returns the runner to the
\* point where the next example is taken.
C6_MismatchCaughtRunGoesOn ==
    [][(pc = "raised" /\ ProtocolMismatch) =>
        /\ records' = Append(records, CaughtRecord)
        /\ examples' = examples
        /\ pc' = "next"]_vars

C6_Witness ==
    /\ pc = "next"
    /\ exc = NoSuchResult
    /\ status = "PREP"
    /\ Len(examples) < MaxExamples
    /\ LastRecord = CaughtRecord

\* C7: an exception raised while launching an example ends in the record
\* (name, ERROR, None, [], stderr = trace) for that example; the runner has
\* exactly one record per example taken so far whenever it is between
\* examples or done, in input order and under the example's name.
C7_ExceptionBecomesErrorRecord ==
    /\ Len(records) <= Len(examples)
    /\ Len(examples) <= Len(records) + 1
    /\ (pc \in {"next", "done"}) <=> (Len(records) = Len(examples))
    /\ \A i \in 1..Len(records) : records[i].name = examples[i].name
    /\ exc # None =>
        /\ pc \in {"raised", "next", "done"}
        /\ pc # "raised" => LastRecord = CaughtRecord

C7_Witness ==
    /\ pc = "done"
    /\ Len(records) = 2
    /\ records[1] = ReportRecord(ExampleNames[1], "ERROR", None, <<>>, None, "trace")
    /\ records[2].result = "SUCCEEDED"
    /\ records[2].name = ExampleNames[2]

\* the filter as the claim states it
ShouldLaunch(name) ==
    /\ name \notin blacklist
    /\ (~whitelist.given \/ name \in whitelist.names)

\* C8: launch is invoked for an example exactly when it is not blacklisted
\* and no whitelist is given or it is on the whitelist; every other example
\* gets the record (name, SKIPPED, None, []) and no command or request is
\* issued for it.
C8_FilteredExamplesAreSkipped ==
    Len(examples) >= 1 =>
        /\ (launched \/ pc = "launch") <=> ShouldLaunch(example.name)
        /\ ~ShouldLaunch(example.name) =>
            /\ pc \in {"next", "done"}
            /\ LastRecord = ReportRecord(example.name, "SKIPPED", None, <<>>, None, None)
            /\ calls = <<>>

C8_Witness ==
    /\ Len(examples) = 2
    /\ example.name \in blacklist
    /\ whitelist.given
    /\ example.name \in whitelist.names
    /\ LastRecord.result = "SKIPPED"
    /\ records[1].result = "SUCCEEDED"

\* C9: in every record, applications is non-empty only if the job id is
\* present and the result is neither ERROR nor SKIPPED; a SKIPPED record has
\* no job id; a record without job id has no applications.
C9_RecordInvariants ==
    \A i \in 1..Len(records) :
        /\ records[i].applications # <<>> =>
            (records[i].oozie_job_id # None /\ records[i].result \notin {"ERROR", "SKIPPED"})
        /\ records[i].result = "SKIPPED" => records[i].oozie_job_id = None
        /\ records[i].oozie_job_id = None => records[i].applications = <<>>

\* C10: after a submission that exited non-zero the example's record is
\* (name, ERROR, None, []) without captured output, nothing was raised, and
\* the submission is the last thing issued for the example: no status query,
\* sleep, kill, application query or log fetch.
C10_FailedSubmissionIsErrorRecord ==
    submit_rc \notin {NoExit, 0} =>
        /\ pc \in {"next", "done"}
        /\ exc = None
        /\ LastRecord = ReportRecord(example.name, "ERROR", None, <<>>, None, None)
        /\ calls[Len(calls)] = "submit"
        /\ \A i \in 1..Len(calls) :
            calls[i] \notin {"query", "sleep", "kill", "applications", "logs"}

C10_Witness ==
    /\ submit_rc = 1
    /\ example.kind = "FluentExample"
    /\ calls = <<"javac", "jar", "submit">>
    /\ LastRecord.result = "ERROR"

\* build_example returned an OozieSubprocessResult to the current launch
BuildFailed == jar_path \in {CompileFailed, PackageFailed}

\* the current example is one of the two fluent kinds
IsFluent ==
    /\ Len(examples) >= 1
    /\ example.kind \in {"FluentExample", "FluentExampleValidateOnly"}

\* C11: when the compile or the package step of a fluent example fails, launch
\* returns (name, ERROR, None, [], stderr = diagnostic) and nothing but the
\* build commands was issued; the package step is run only after a successful
\* compile step, and a submission or validation only after a successful
\* package step.
C11_FailedBuildIsErrorRecord ==
    /\ BuildFailed =>
        /\ IsFluent
        /\ pc \in {"next", "done"}
        /\ exc = None
        /\ LastRecord = ReportRecord(example.name, "ERROR", None, <<>>, None,
                                     "Oozie subprocess failed")
        /\ \A i \in 1..Len(calls) : calls[i] \in {"javac", "jar"}
    /\ IsFluent =>
        \A i \in 1..Len(calls) :
            /\ calls[i] = "jar" =>
                (i = 2 /\ calls[1] = "javac" /\ jar_path # CompileFailed)
            /\ calls[i] \in {"submit", "validatejar"} =>
                (i = 3 /\ calls[1] = "javac" /\ calls[2] = "jar" /\ jar_path = JarFile)

C11_Witness ==
    /\ jar_path = PackageFailed
    /\ example.kind = "FluentExample"
    /\ calls = <<"javac", "jar">>
    /\ pc = "next"
    /\ LastRecord.stderr = "Oozie subprocess failed"

\* C12: a validate-only example whose build succeeded gets SUCCEEDED for the
\* validation exit code 0 and ERROR for any other code; nothing is submitted,
\* queried or killed for it and no applications are looked up; its record has
\* no job id and no applications.
C12_ValidationMapsExitCode ==
    (Len(examples) >= 1 /\ example.kind = "FluentExampleValidateOnly") =>
        /\ \A i \in 1..Len(calls) : calls[i] \in {"javac", "jar", "validatejar"}
        /\ job_id = None
        /\ applications = <<>>
        /\ return_code # NoExit =>
            /\ jar_path = JarFile
            /\ pc \in {"next", "done"}
            /\ exc = None
            /\ LastRecord = ReportRecord(example.name,
                                IF return_code = 0 THEN "SUCCEEDED" ELSE "ERROR",
                                None, <<>>, "validate stdout", "validate stderr")
        /\ pc \in {"next", "done"} =>
            /\ LastRecord.oozie_job_id = None
            /\ LastRecord.applications = <<>>

C12_Witness ==
    /\ Len(examples) = 2
    /\ example.kind = "FluentExampleValidateOnly"
    /\ return_code = 2
    /\ calls = <<"javac", "jar", "validatejar">>
    /\ LastRecord.result = "ERROR"
    /\ LastRecord.stdout = "validate stdout"

\* the runner is inside the with block of a launch
InLaunch ==
    pc \in {"compile", "jar", "props", "validate", "submit", "wait", "loop",
            "requery", "apps", "logs"}

\* C13: the scratch build directory of a fluent launch does not exist before
\* the launch creates it and no longer exists once the launch has returned or
\* raised, whichever way it ended.
C13_ScratchDirectoryLivesWithLaunch ==
    tmp_exists <=> (IsFluent /\ InLaunch)

C13_Witness ==
    /\ Len(examples) = 2
    /\ examples[1].kind = "FluentExample"
    /\ records[1].result = "TIMED_OUT"
    /\ example.kind = "FluentExampleValidateOnly"
    /\ launched
    /\ pc = "raised"
    /\ ~tmp_exists

\* one "\n" in front of every option
RECURSIVE OptionLines(_)
OptionLines(opts) ==
    IF opts = <<>> THEN ""
    ELSE "\n" \o Head(opts) \o OptionLines(Tail(opts))

\* the file content the claim describes
ExpectedProperties(opts, oozie_version) ==
    "queueName=default\nexamplesRoot=examples\nprojectVersion=" \o oozie_version
        \o OptionLines(opts)

\* C14: every call of create_job_properties, the first as well as a repeated
\* one and whatever the file held before, leaves the file with exactly the
\* lines queueName=default, examplesRoot=examples, projectVersion=<version>
\* and the caller's options in order, joined by newlines without a trailing
\* newline, and leaves the options list as it was.
C14_JobPropertiesRewritten ==
    [][Len(returned') > Len(returned) =>
        /\ argument'.job_properties_file =
                ExpectedProperties(argument.options, argument.oozie_version)
        /\ argument'.options = argument.options]_vars

C14_Witness ==
    /\ Len(returned) = 2
    /\ argument.options = <<"option1=A", "option2=B">>
    /\ argument.oozie_version = "5.1.0"
    /\ argument.job_properties_file =
        "queueName=default\nexamplesRoot=examples\nprojectVersion=5.1.0\noption1=A\noption2=B"

Digits == {"0", "1", "2", "3", "4", "5", "6", "7", "8", "9"}
Letters == {"a", "b", "c", "i", "j", "l", "n", "o", "p", "t"}
AppPrefix == APPLICATION \o <<"_">>

\* digits and underscores, beginning with a digit
IsNumeric(s) ==
    /\ s # <<>>
    /\ s[1] \in Digits
    /\ \A i \in 1..Len(s) : s[i] \in Digits \cup {"_"}

\* letters, an underscore, then a numeric part
HasRawPrefix(s) ==
    /\ Find(s, "_") >= 1
    /\ \A i \in 1..Find(s, "_") : s[i] \in Letters
    /\ IsNumeric(SliceFrom(s, Find(s, "_") + 1))

\* the id without its raw prefix
NumericPart(s) == IF IsNumeric(s) THEN s ELSE SliceFrom(s, Find(s, "_") + 1)

\* C15: normalization turns an unprefixed id into "application_" followed by
\* the whole id, an id with another raw prefix into "application_" followed
\* by its numeric part, and returns an id that starts with "application_" as
\* it is.
C15_NormalizedApplicationId ==
    \A i \in 1..Len(returned) :
        /\ StartsWith(argument, AppPrefix) => returned[i] = argument
        /\ IsNumeric(argument) => returned[i] = AppPrefix \o argument
        /\ (HasRawPrefix(argument) /\ ~StartsWith(argument, AppPrefix)) =>
                returned[i] = AppPrefix \o NumericPart(argument)

\* the ids the claim names behave as it says, the unprefixed one excepted
C15_PrefixedIdsNormalized ==
    \A i \in 1..Len(returned) :
        /\ argument = ApplicationId => returned[i] = ApplicationId
        /\ argument = JobId => returned[i] = ApplicationId
        /\ argument = UnprefixedId =>
                returned[i] = AppPrefix \o <<"0", "0", "0", "1">>

\* an action the claim counts as dispatched
Dispatched(action) == action.kind = "str" /\ action.externalId # ExtDash

\* one normalized id per dispatched action, in the order of the actions
ExpectedApplications(doc) ==
    LET dispatched == SelectSeq(doc.actions, Dispatched)
    IN  [i \in 1..Len(dispatched) |->
            get_application_name_from_external_id(dispatched[i].externalId)]

\* C16: get_yarn_applications_of_job returns without an error, for every
\* document, the normalized ids of the actions whose externalId is present
\* and not "-", in the order of the actions array; actions whose externalId
\* is "-", null or absent are skipped, and a document without an actions
\* array gives the empty list.
C16_ApplicationsOfDispatchedActions ==
    \A i \in 1..Len(returned) :
        /\ returned[i].raised = None
        /\ returned[i].value = ExpectedApplications(argument)

\* str.__contains__
Contains(text, part) ==
    \E i \in 1..(Len(text) - Len(part) + 1) : SubSeq(text, i, i + Len(part) - 1) = part

\* str.endswith
EndsWith(text, part) ==
    /\ Len(text) >= Len(part)
    /\ SubSeq(text, Len(text) - Len(part) + 1, Len(text)) = part

\* the decimal numeral of a number below ten
Numeral(n) == <<"0", "1", "2", "3", "4", "5", "6", "7", "8", "9">>[n + 1]

IsMarker(element) == element.tag \in {"skipped", "failure", "error"}

\* the marker the claim gives for a result, as <<tag, type>>; <<>> for none
MarkerOf(result) ==
    CASE result = "SKIPPED" -> <<"skipped", None>>
      [] result = "TIMED_OUT" -> <<"failure", "timeout">>
      [] result = "KILLED" -> <<"failure", "killed">>
      [] result = "FAILED" -> <<"failure", "failed">>
      [] result = "ERROR" -> <<"error", "error">>
      [] result = "SUCCEEDED" -> <<>>

\* number of children of a test case with the given tag
Tagged(testcase, tag) ==
    Cardinality({j \in 1..Len(testcase.children) : testcase.children[j].tag = tag})

\* C17: the suite generate_report returns has the number of records as its
\* tests attribute and one test case per record, in the order of the records
\* and under the record's name; a test case has the marker of its result
\* (skipped; failure timeout / killed / failed; error error; none for
\* SUCCEEDED), never more than one, and exactly one system-out and one
\* system-err block.
C17_OneTestcasePerRecord ==
    \A c \in 1..Len(returned) :
        returned[c].raised = None =>
            LET suite == returned[c].value
                recs == argument.report_records
            IN  /\ suite.tests = Numeral(Len(recs))
                /\ Len(suite.testcases) = Len(recs)
                /\ \A i \in 1..Len(recs) :
                    LET testcase == suite.testcases[i]
                        markers == SelectSeq(testcase.children, IsMarker)
                    IN  /\ testcase.name = recs[i].name
                        /\ Len(markers) <= 1
                        /\ Len(markers) = 0 <=> MarkerOf(recs[i].result) = <<>>
                        /\ Len(markers) = 1 =>
                            <<markers[1].tag, markers[1].type>> = MarkerOf(recs[i].result)
                        /\ Tagged(testcase, "system-out") = 1
                        /\ Tagged(testcase, "system-err") = 1

C17_Witness ==
    /\ Len(returned) = 1
    /\ returned[1].raised = None
    /\ returned[1].value.tests = "2"
    /\ argument.report_records[1].result = "KILLED"
    /\ returned[1].value.testcases[1].children[1] = Element("failure", "killed", None)
    /\ argument.report_records[2].result = "SUCCEEDED"
    /\ Len(returned[1].value.testcases[2].children) = 2

\* the text of the child of a test case with the given tag
TextOf(testcase, tag) ==
    testcase.children[CHOOSE j \in 1..Len(testcase.children) :
                            testcase.children[j].tag = tag].text

\* a record's own text, empty when it has none
OwnText(text) == IF text = None THEN "" ELSE text

\* C18: the system-out (system-err) text of a record's test case begins with
\* the record's own stdout (stderr), if it has one, and what follows it holds,
\* for every container directory of every application of the record, the
\* container's header directly followed by its captured stdout (stderr).
C18_LocalTextThenRemoteLogs ==
    \A c \in 1..Len(returned) :
        returned[c].raised = None =>
            \A i \in 1..Len(argument.report_records) :
                LET rec == argument.report_records[i]
                    dir == argument.report_and_log_dir
                    testcase == returned[c].value.testcases[i]
                    out == TextOf(testcase, "system-out")
                    err == TextOf(testcase, "system-err")
                    remote_out == SubSeq(out, Len(OwnText(rec.stdout)) + 1, Len(out))
                    remote_err == SubSeq(err, Len(OwnText(rec.stderr)) + 1, Len(err))
                IN  /\ StartsWith(out, OwnText(rec.stdout))
                    /\ StartsWith(err, OwnText(rec.stderr))
                    /\ \A k \in 1..Len(rec.applications) :
                        rec.applications[k] \in DOMAIN dir =>
                            \A e \in dir[rec.applications[k]] :
                                (e.is_dir /\ StartsWith(e.name, CONTAINER)) =>
                                    /\ Contains(remote_out,
                                            container_header(Str(e.name)) \o e.stdout)
                                    /\ Contains(remote_err,
                                            container_header(Str(e.name)) \o e.stderr)

C18_Witness ==
    /\ Len(returned) = 1
    /\ returned[1].raised = None
    /\ Len(argument.report_records) = 1
    /\ argument.report_records[1].result = "FAILED"
    /\ argument.report_records[1].stdout = "Stdout message"
    /\ argument.report_records[1].applications = <<App1, App2>>
    /\ argument.report_and_log_dir =
            LogDir(Root({Container1, Container2}), Root({Container3}))
    /\ Contains(TextOf(returned[1].value.testcases[1], "system-out"),
                "**container_2**\n\nout 2\n\n")

\* the entries of an existing application root that are no container directories
\* leave no trace in either string
OnlyContainersContribute(apps, dir, logs) ==
    \A k \in 1..Len(apps) :
        apps[k] \in DOMAIN dir =>
            \A e \in dir[apps[k]] :
                ~(e.is_dir /\ StartsWith(e.name, CONTAINER)) =>
                    /\ ~Contains(logs[1], container_header(Str(e.name)))
                    /\ ~Contains(logs[2], container_header(Str(e.name)))

\* an application without a log root raises nothing
AbsentRootsRaiseNothing(apps, dir, outcome) ==
    (\A k \in 1..Len(apps) : apps[k] \notin DOMAIN dir) => outcome.raised = None

\* C19 (as claimed): an application of the record whose log root does not
\* exist leaves nothing in the two strings, neither a header nor text, and
\* raises nothing; of the entries of an existing root only the directories
\* whose name starts with "container" contribute.
C19_AbsentRootContributesNothing ==
    \A c \in 1..Len(returned) :
        LET apps == argument.record.applications
            dir == argument.report_and_log_dir
        IN  /\ AbsentRootsRaiseNothing(apps, dir, returned[c])
            /\ returned[c].raised = None =>
                /\ \A k \in 1..Len(apps) :
                    apps[k] \notin DOMAIN dir =>
                        /\ ~Contains(returned[c].value[1], Str(apps[k]))
                        /\ ~Contains(returned[c].value[2], Str(apps[k]))
                /\ OnlyContainersContribute(apps, dir, returned[c].value)

\* the header of the k-th application is directly followed by the header of
\* the next application, or ends the text
HeaderOnly(apps, k, text) ==
    IF k = Len(apps)
    THEN EndsWith(text, application_header(apps[k]))
    ELSE Contains(text, application_header(apps[k]) \o application_header(apps[k + 1]))

\* C19 (amended): an application of the record whose log root does not exist
\* contributes its application header and nothing else, no container header
\* and no text, and raises nothing; of the entries of an existing root only
\* the directories whose name starts with "container" contribute.
C19_AbsentRootContributesHeaderOnly ==
    \A c \in 1..Len(returned) :
        LET apps == argument.record.applications
            dir == argument.report_and_log_dir
        IN  /\ AbsentRootsRaiseNothing(apps, dir, returned[c])
            /\ returned[c].raised = None =>
                /\ \A k \in 1..Len(apps) :
                    apps[k] \notin DOMAIN dir =>
                        /\ HeaderOnly(apps, k, returned[c].value[1])
                        /\ HeaderOnly(apps, k, returned[c].value[2])
                /\ OnlyContainersContribute(apps, dir, returned[c].value)

C19_Witness ==
    /\ Len(returned) >= 1
    /\ returned[1].raised = None
    /\ argument.record.applications = <<App2, App1>>
    /\ argument.report_and_log_dir =
            LogDir(Root({Container1, OtherDir, ContainerFile}), NoRoot)
    /\ returned[1].value[1] =
            application_header(App2) \o application_header(App1)
                \o "**container_1**\n\nout 1\n\n"

\* C20: any two calls of printable_logs_for_oozie_job for the same record and
\* the same application roots and container directories return the same two
\* strings: the order of the containers in them does not depend on the order
\* in which a directory is enumerated.
C20_SameLogsOnEveryRun ==
    \A i, j \in 1..Len(returned) : returned[i] = returned[j]

\* C21: the exit status of main is non-zero exactly when some record's
\* result is neither SUCCEEDED nor SKIPPED or an exception reached main's
\* handler, and 0 when every record is SUCCEEDED or SKIPPED; an exit status
\* that is decided from the records is decided after they were written to the
\* report_records file.
C21_ExitStatusFollowsRecords ==
    returned # <<>> =>
        /\ returned[1] # 0 <=>
            (exc # None \/ \E i \in 1..Len(records) :
                                records[i].result \notin {"SUCCEEDED", "SKIPPED"})
        /\ exc = None => argument.report_records_file = records

C21_Witness ==
    /\ returned = <<1>>
    /\ Len(records) = 2
    /\ records[1].result = "SUCCEEDED"
    /\ records[2].result = "TIMED_OUT"
    /\ argument.report_records_file = records

\* an exception reached the handler of main: the exit status is 2
C21_WitnessRaised ==
    /\ returned = <<2>>
    /\ exc = "OSError"
    /\ Len(records) = 1
    /\ records[1].result = "SUCCEEDED"

\* the dictionary run_examples was called with: the entries under the
\* examples' own names are never written, so the keys identify it
ConfiguredOptions == CHOOSE d \in CliOptionChoices : DOMAIN d = DOMAIN cli_options

\* C22: every launched example is launched with exactly the options
\* configured under 'all' followed by those configured under its own name,
\* whichever examples were processed before it.
C22_OptionsOfAllAndOwnName ==
    launched =>
        options = DictGet(ConfiguredOptions, "all")
                    \o DictGet(ConfiguredOptions, example.name)

\* C23: once the kill command of the timeout branch has returned, with exit
\* code zero or non-zero, wait_for_job_to_finish has returned TIMED_OUT, the
\* kill was its last command (no further status query, no sleep) and it was
\* issued once.
C23_KillIsFireAndForget ==
    kill_rc # NoExit =>
        /\ final_status = "TIMED_OUT"
        /\ exc = None
        /\ Kills = 1
        /\ calls[Len(calls)] = "kill"
        /\ pc = "apps"

\* the kill command failed and the job is reported TIMED_OUT all the same
C23_Witness ==
    /\ kill_rc = 1
    /\ final_status = "TIMED_OUT"
    /\ Queries > 1

\* C24: whatever raw status the engine reports, the only Results
\* wait_for_job_to_finish returns are SUCCEEDED, FAILED, KILLED and the
\* locally synthesized TIMED_OUT; it never returns SKIPPED or ERROR.
C24_WaitNeverReturnsLocalResults ==
    WaitReturned => final_status \in {"SUCCEEDED", "FAILED", "KILLED", "TIMED_OUT"}

\* C25 as stated: every record of a submitted and monitored job, and every
\* record with result SUCCEEDED or SKIPPED, has stdout = None and
\* stderr = None.
C25_OutputOnlyForLocalFailures ==
    \A i \in 1..Len(records) :
        (records[i].oozie_job_id # None \/ records[i].result \in {"SUCCEEDED", "SKIPPED"})
            => records[i].stdout = None /\ records[i].stderr = None

\* the example just recorded was filtered out or its submission command failed
NothingCaptured ==
    ~launched \/ (submit_rc \notin {NoExit, 0} /\ exc = None)

\* C25: a record that carries a job id (the job was submitted and monitored)
\* has the engine's log in stdout and its error log in stderr; a record
\* without job id has both fields None when its result is SKIPPED and the
\* validation command's output when its result is SUCCEEDED; stdout is never
\* populated without stderr; both fields of the record of an example are None
\* exactly when the example was filtered out or its submission command failed.
C25_OutputOfMonitoredJobsIsEngineLog ==
    /\ \A i \in 1..Len(records) :
        LET r == records[i] IN
        /\ r.oozie_job_id # None =>
                r.stdout = "Oozie logs" /\ r.stderr = "Oozie error logs"
        /\ r.oozie_job_id = None /\ r.result = "SKIPPED" =>
                r.stdout = None /\ r.stderr = None
        /\ r.oozie_job_id = None /\ r.result = "SUCCEEDED" =>
                r.stdout = "validate stdout" /\ r.stderr = "validate stderr"
        /\ r.stdout # None => r.stderr # None
    /\ Len(examples) > 0 /\ Len(records) = Len(examples) =>
        ((LastRecord.stdout = None /\ LastRecord.stderr = None) <=> NothingCaptured)

\* a filtered example without output next to a monitored job with the
\* engine's logs
C25_Witness ==
    /\ Len(records) = 2
    /\ records[1].result = "SKIPPED"
    /\ records[1].stdout = None
    /\ records[2].result = "SUCCEEDED"
    /\ records[2].oozie_job_id # None
    /\ records[2].stdout = "Oozie logs"
    /\ records[2].stderr = "Oozie error logs"

\* C26: once wait_for_job_to_finish has returned a result for an example's
\* job, the record made for the example has that result and carries the id of
\* the job, whether or not the application query or the log fetch that follow
\* fail.
C26_RecordKeepsResultOfWait ==
    (WaitReturned /\ Len(records) = Len(examples)) =>
        /\ LastRecord.result = final_status
        /\ LastRecord.oozie_job_id = job_id

\* C27: every command or request run_examples issues (build, submission,
\* validation, status query, sleep, kill, application query, log fetch) is
\* issued for the example it took last, while each example taken before has
\* its ReportRecord and that example has none yet; the step leaves the list of
\* examples taken as it is.
C27_OneExampleAtATime ==
    [][(calls' # calls /\ calls' # <<>>) =>
            /\ examples' = examples
            /\ Len(records) = Len(examples) - 1
            /\ \A i \in 1..Len(records) : records[i].name = examples[i].name]_vars

\* the second example is being monitored after the first one was monitored
\* and recorded
C27_Witness ==
    /\ Len(examples) = 2
    /\ Len(records) = 1
    /\ records[1].oozie_job_id = JobIds[1]
    /\ job_id = JobIds[2]
    /\ Queries > 0

\* C28: when wait_for_job_to_finish has returned and the most recent status
\* query gave SUCCEEDED, FAILED or KILLED, the result is that status and no
\* kill was issued, also when the deadline had passed by then; a kill is
\* issued only with the deadline passed and RUNNING as the most recent status.
C28_TerminalStatusBeforeDeadline ==
    /\ (WaitReturned /\ LastReply \in EngineResults) =>
            final_status = LastReply /\ Kills = 0 /\ kill_rc = NoExit
    /\ Kills > 0 => LastReply = "RUNNING" /\ elapsed >= timeout

\* the job was still running at the first query and is found SUCCEEDED by a
\* query made after the deadline
C28_Witness ==
    /\ final_status = "SUCCEEDED"
    /\ timeout > 0
    /\ elapsed > timeout
    /\ Queries = 2
    /\ replies = <<"RUNNING", "SUCCEEDED">>

\* position of a command or request in the order of a launch
CallRank(call) ==
    CASE call = "javac" -> 0
      [] call = "jar" -> 1
      [] call \in {"validatejar", "submit"} -> 2
      [] call \in {"query", "sleep"} -> 3
      [] call = "kill" -> 4
      [] call = "applications" -> 5
      [] call = "logs" -> 6

\* C29: the commands and requests of a launched example are issued in the
\* order submit, status queries (with the sleeps between them), kill,
\* application query, log fetch, each of submit, kill, application query and
\* log fetch at most once; a kill is issued only with the result TIMED_OUT;
\* the application query is issued only once the monitor has returned, after
\* at least one status query, and it is issued for whatever the monitor
\* returned, TIMED_OUT included, before the log fetch.
C29_OrderOfExternalCalls ==
    /\ \A i \in 1..(Len(calls) - 1) : CallRank(calls[i]) <= CallRank(calls[i + 1])
    /\ \A call \in {"submit", "kill", "applications", "logs"} : Count(calls, call) <= 1
    /\ Kills = 1 => final_status = "TIMED_OUT"
    /\ Count(calls, "applications") = 1 =>
            WaitReturned /\ Queries >= 1 /\ calls[1] \in {"submit", "javac"}
                         /\ Count(calls, "submit") = 1
    /\ WaitReturned => pc = "apps" \/ Count(calls, "applications") = 1
    /\ Count(calls, "logs") = 1 => calls[Len(calls) - 1] = "applications"

\* a job that timed out: killed, then asked for its applications and logs
C29_Witness ==
    /\ calls = <<"submit", "query", "sleep", "query", "kill", "applications", "logs">>
    /\ Len(records) = Len(examples)
    /\ LastRecord.result = "TIMED_OUT"
    /\ LastRecord.oozie_job_id = job_id

\* the X of a file named X.java
ClassOf(java_file) == SubSeq(java_file, 1, Len(java_file) - Len(JAVA))

\* C30: get_all_fluent_examples returns, for every source file X.java, an
\* example whose name() is Fluent_X, and the example is a
\* FluentExampleValidateOnly exactly when its name() is in validate_only and a
\* FluentExample otherwise.
C30_FluentExamplesNamedAfterFiles ==
    \A k \in 1..Len(returned) :
        returned[k].raised = None =>
            /\ Len(returned[k].value) = Len(argument.java_files)
            /\ \A i \in 1..Len(argument.java_files) :
                LET made == returned[k].value[i] IN
                /\ made.name = FluentName(ClassOf(argument.java_files[i]))
                /\ made.kind = IF made.name \in argument.validate_only
                               THEN "FluentExampleValidateOnly"
                               ELSE "FluentExample"

\* C31: a kill is issued only for the submitted job of a launched example,
\* with RUNNING as its most recent status and the timeout elapsed, when no
\* kill was issued for it before; the wait then ends with TIMED_OUT, never
\* with SUCCEEDED, FAILED or KILLED. No kill is issued for an example that was
\* skipped or whose submission failed.
C31_KillOnlyAtDeadline ==
    [][Count(calls', "kill") > Kills =>
            /\ Kills = 0
            /\ launched /\ submit_rc = 0 /\ job_id # None
            /\ status = "RUNNING" /\ LastReply = "RUNNING"
            /\ elapsed >= timeout
            /\ final_status = None
            /\ final_status' = "TIMED_OUT"]_vars

\* a skipped example, for which no kill is issued, before
\* a job that is killed at its deadline
C31_Witness ==
    /\ Len(examples) = 2
    /\ records[1].result = "SKIPPED"
    /\ Kills = 1
    /\ kill_rc # NoExit
    /\ final_status = "TIMED_OUT"
    /\ timeout > 0

\* C32: when run_examples has returned, the list stored under every key of
\* its cli_options argument, 'all' included, has the elements it had when
\* the function was called.
C32_CliOptionsLeftUnchanged ==
    pc = "done" =>
        \A key \in DOMAIN cli_options : cli_options[key] = ConfiguredOptions[key]

\* C33: once the record of an example whose submission succeeded has been
\* made, the engine has reported SUCCEEDED, FAILED or KILLED for its job as
\* the most recent status, or the runner has issued a kill for the job,
\* whichever way the monitoring ended.
C33_NoJobLeftRunning ==
    (job_id # None /\ Len(records) = Len(examples)) =>
        \/ replies # <<>> /\ LastReply \in EngineResults
        \/ Kills > 0

\* ceil(a / b) for b >= 1
Ceil(a, b) == (a + b - 1) \div b

\* C34: with poll_time >= 1, wait_for_job_to_finish ends (it returns or
\* raises) whatever the status replies are; when it has ended it has made
\* exactly one status query more than it has slept, and at most
\* 1 + ceil(timeout / poll_time) status queries.
C34_WaitTerminatesWithinBound ==
    /\ []((poll_time >= 1 /\ WaitEnded) =>
            /\ Queries = Sleeps + 1
            /\ Queries <= 1 + Ceil(timeout, poll_time))
    /\ ((poll_time >= 1) => <>WaitEnded)

\* the bound is met: timeout 5 and poll_time 2 give 3 sleeps and 4 queries
C34_Witness ==
    /\ poll_time = 2
    /\ timeout = 5
    /\ WaitEnded
    /\ Sleeps = 3
    /\ Queries = 4
    /\ final_status = "TIMED_OUT"

\* C35: with whitelist = None every example that is not blacklisted is
\* launched; with whitelist = [] every example gets a SKIPPED record without
\* job id and nothing is launched, no command issued.
C35_EmptyWhitelistSkipsEverything ==
    Len(examples) >= 1 =>
        /\ (~whitelist.given /\ example.name \notin blacklist) =>
                (launched \/ pc = "launch")
        /\ (whitelist.given /\ whitelist.names = {}) =>
                /\ ~launched
                /\ calls = <<>>
                /\ Len(records) = Len(examples)
                /\ \A i \in 1..Len(records) :
                        records[i] = ReportRecord(examples[i].name, "SKIPPED",
                                                  None, <<>>, None, None)

\* two examples, neither blacklisted, skipped by the empty whitelist
C35_Witness ==
    /\ whitelist.given
    /\ whitelist.names = {}
    /\ blacklist = {}
    /\ Len(records) = 2
    /\ records[1].result = "SKIPPED"
    /\ records[2].result = "SKIPPED"
    /\ pc = "done"

\* C36: whatever the records and the application and container directories
\* are, a container directory without a stdout file included, generate_report
\* returns a suite with a test case for every record; it does not raise.
C36_GenerateReportIsTotal ==
    \A c \in 1..Len(returned) :
        /\ returned[c].raised = None
        /\ Len(returned[c].value.testcases) = Len(argument.report_records)

\* C37: what the normalization returns starts with "application", and
\* normalizing it again returns it unchanged, for every external id, those
\* without an underscore included.
C37_NormalizationIsIdempotent ==
    \A i \in 1..Len(returned) :
        /\ StartsWith(returned[i], APPLICATION)
        /\ returned[i] = returned[1]

\* an id without underscore: its last character is kept, and kept again
C37_Witness ==
    /\ argument = <<"j", "1">>
    /\ Len(returned) = 2
    /\ returned[1] = APPLICATION \o <<"1">>
    /\ returned[2] = APPLICATION \o <<"1">>

====
